---- MODULE Spec2Model ----
(***************************************************************************)
(* Model of tronlib.py: the TronBoard state machine (constructor,          *)
(* valid_move, update), the SimpleBot / NNBot policies and the TronGame    *)
(* iterator.                                                               *)
(***************************************************************************)
EXTENDS Integers, Sequences, FiniteSets, TLC

\* ---------------------------------------------------------------- bounds
\* board = np.zeros((n, m)): n rows (first index), m columns (second index)
N == 3
M == 2

\* ------------------------------------------------------------- constants
EMPTY == 0
PLAYER1_POSITION == 1
PLAYER2_POSITION == 2
VISITED1 == 3
VISITED2 == 4
\* the rows of the VALID_VECTORS array
VALID_VECTORS == << <<0, 1>>, <<0, -1>>, <<1, 0>>, <<-1, 0>> >>

\* Python's None where a move is expected (moves are pairs, None is the empty tuple)
None == <<>>
\* Python's None in the winner field (winner is None, 1 or 2)
NoWinner == 0

\* --------------------------------------------------------------- helpers
Cells == (0 .. N - 1) \X (0 .. M - 1)

\* the four unit vectors as a set
UnitVectors == {VALID_VECTORS[i] : i \in 1 .. Len(VALID_VECTORS)}

\* numpy elementwise addition of two pairs
Add(p, v) == <<p[1] + v[1], p[2] + v[2]>>

\* numpy index normalisation of one axis: -len..-1 wrap, the rest is IndexError
InRange(i, len) == i >= -len /\ i < len
Norm(i, len) == IF i < 0 THEN i + len ELSE i
Indexable(p) == InRange(p[1], N) /\ InRange(p[2], M)
Idx(p) == <<Norm(p[1], N), Norm(p[2], M)>>

\* numpy's  x in arr  for a 2-d array and a pair: (arr == x).any() after
\* broadcasting, i.e. some element of some row equals the element of x in
\* the same column
Contains(arr, x) ==
  \E i \in 1 .. Len(arr) : \E j \in 1 .. 2 : arr[i][j] = x[j]

\* Python's str(bool) for the value update returns
Bool(b) == IF b THEN "True" ELSE "False"

\* ------------------------------------------------------------- TronBoard
\* the object before / without a successful construction
NoBoard ==
  [board |-> [c \in Cells |-> EMPTY], gameover |-> FALSE, winner |-> NoWinner,
   p1 |-> <<0, 0>>, p2 |-> <<0, 0>>, v1 |-> <<0, 0>>, v2 |-> <<0, 0>>]

\* TronBoard.__init__(n, m, p1, p2, v1, v2) with n = N, m = M
TronBoard_init(p1, p2, v1, v2) ==
  IF p1 = p2 THEN [self |-> NoBoard, ret |-> "AssertionError"]
  ELSE IF ~Indexable(p1) \/ ~Indexable(p2) THEN [self |-> NoBoard, ret |-> "IndexError"]
  ELSE LET b0 == [c \in Cells |-> EMPTY]
           b1 == [b0 EXCEPT ![Idx(p1)] = PLAYER1_POSITION]
           b2 == [b1 EXCEPT ![Idx(p2)] = PLAYER2_POSITION]
       IN [self |-> [board |-> b2, gameover |-> FALSE, winner |-> NoWinner,
                     p1 |-> p1, p2 |-> p2, v1 |-> v1, v2 |-> v2],
           ret |-> "None"]

\* valid_move without the test for negative coordinates: numpy wraps them
valid_move_wraps(self, move) ==
  IF ~Indexable(move) THEN FALSE
  ELSE self.board[Idx(move)] = EMPTY

\* TronBoard.valid_move(move)
valid_move(self, move) ==
  IF move[1] < 0 \/ move[2] < 0 THEN FALSE
  ELSE IF ~Indexable(move) THEN FALSE          \* except IndexError
  ELSE self.board[Idx(move)] = EMPTY

\* None replaced by the stored vector with its two components exchanged
Substitute_transposed(move, v) == IF move = None THEN <<v[2], v[1]>> ELSE move

\* update, lines 58-61: None is replaced by the stored vector
Substitute(move, v) == IF move = None THEN v ELSE move

\* the head-on branch placed after the marking of the previous positions
HeadOn_marks(self) ==
  LET b1 == [self.board EXCEPT ![Idx(self.p1)] = VISITED1]
      b2 == [b1 EXCEPT ![Idx(self.p2)] = VISITED2]
  IN [self |-> [self EXCEPT !.board = b2, !.gameover = TRUE, !.winner = NoWinner],
      ret |-> "False"]

\* update, lines 75-78: both players moved to the same spot
HeadOn(self) ==
  [self |-> [self EXCEPT !.gameover = TRUE, !.winner = NoWinner], ret |-> "False"]

\* lines 81-82 writing EMPTY: the cells the players leave become free again
MarkVisited_vacates(self) ==
  LET b1 == [self.board EXCEPT ![Idx(self.p1)] = EMPTY]
      b2 == [b1 EXCEPT ![Idx(self.p2)] = EMPTY]
  IN [self EXCEPT !.board = b2]

\* line 82 writing at self.p1 again instead of self.p2
MarkVisited_p1twice(self) ==
  LET b1 == [self.board EXCEPT ![Idx(self.p1)] = VISITED1]
      b2 == [b1 EXCEPT ![Idx(self.p1)] = VISITED2]
  IN [self EXCEPT !.board = b2]

\* update, lines 81-82: the previous positions become visited
MarkVisited(self) ==
  LET b1 == [self.board EXCEPT ![Idx(self.p1)] = VISITED1]
      b2 == [b1 EXCEPT ![Idx(self.p2)] = VISITED2]
  IN [self EXCEPT !.board = b2]

\* the test with only the players' present cells as obstacles
Dead_trailsok(self, new_position) ==
  IF new_position[1] < 0 \/ new_position[2] < 0 \/ ~Indexable(new_position)
    THEN TRUE
    ELSE self.board[Idx(new_position)] \in {PLAYER1_POSITION, PLAYER2_POSITION}

\* update, lines 90 and 95: the test that marks a player dead
Dead(self, new_position) ==
  (~valid_move(self, new_position)) \/ self.board[Idx(new_position)] # EMPTY

\* lines 93-94 also clearing the cell player 1 leaves
MoveP1_clears(self, p1_new_position) ==
  IF Dead(self, p1_new_position) THEN self
  ELSE [self EXCEPT !.board = [self.board EXCEPT ![Idx(self.p1)] = EMPTY,
                                                 ![Idx(p1_new_position)] = PLAYER1_POSITION],
                    !.p1 = p1_new_position]

\* lines 93-94 without the write of line 93
MoveP1_nomark(self, p1_new_position) ==
  IF Dead(self, p1_new_position) THEN self
  ELSE [self EXCEPT !.p1 = p1_new_position]

\* update, lines 90-94
MoveP1(self, p1_new_position) ==
  IF Dead(self, p1_new_position) THEN self
  ELSE [self EXCEPT !.board[Idx(p1_new_position)] = PLAYER1_POSITION,
                    !.p1 = p1_new_position]

\* lines 98-99 writing player 1's mark for player 2
MoveP2_marks1(self, p2_new_position) ==
  IF Dead(self, p2_new_position) THEN self
  ELSE [self EXCEPT !.board[Idx(p2_new_position)] = PLAYER1_POSITION,
                    !.p2 = p2_new_position]

\* update, lines 95-99
MoveP2(self, p2_new_position) ==
  IF Dead(self, p2_new_position) THEN self
  ELSE [self EXCEPT !.board[Idx(p2_new_position)] = PLAYER2_POSITION,
                    !.p2 = p2_new_position]

\* lines 102-111 as  self.gameover = p1_dead or p2_dead
Outcome_resets(self, p1_dead, p2_dead) ==
  IF p1_dead
    THEN IF p2_dead THEN [self EXCEPT !.gameover = TRUE, !.winner = NoWinner]
                    ELSE [self EXCEPT !.gameover = TRUE, !.winner = 2]
    ELSE IF p2_dead THEN [self EXCEPT !.gameover = TRUE, !.winner = 1]
                    ELSE [self EXCEPT !.gameover = FALSE]

\* lines 106-108 without  self.gameover = True  in the branch of the survivor
Outcome_p1deadgoeson(self, p1_dead, p2_dead) ==
  IF p1_dead
    THEN IF p2_dead THEN [self EXCEPT !.gameover = TRUE, !.winner = NoWinner]
                    ELSE [self EXCEPT !.winner = 2]
    ELSE IF p2_dead THEN [self EXCEPT !.gameover = TRUE, !.winner = 1]
                    ELSE self

\* lines 109-111 without  self.gameover = True
Outcome_p2deadgoeson(self, p1_dead, p2_dead) ==
  IF p1_dead
    THEN IF p2_dead THEN [self EXCEPT !.gameover = TRUE, !.winner = NoWinner]
                    ELSE [self EXCEPT !.gameover = TRUE, !.winner = 2]
    ELSE IF p2_dead THEN [self EXCEPT !.winner = 1]
                    ELSE self

\* update, lines 102-111
Outcome(self, p1_dead, p2_dead) ==
  IF p1_dead
    THEN IF p2_dead THEN [self EXCEPT !.gameover = TRUE, !.winner = NoWinner]
                    ELSE [self EXCEPT !.gameover = TRUE, !.winner = 2]
    ELSE IF p2_dead THEN [self EXCEPT !.gameover = TRUE, !.winner = 1]
                    ELSE self

\* update with player 2's move validated only after player 1's move is applied
update_latecheck(self, player1_move, player2_move) ==
  LET m1 == Substitute(player1_move, self.v1)
      m2 == Substitute(player2_move, self.v2)
  IN IF ~Contains(VALID_VECTORS, m1) THEN [self |-> self, ret |-> "ValueError"]
     ELSE LET p1_new_position == Add(self.p1, m1)
              s0 == MarkVisited(self)
              s1 == MoveP1(s0, p1_new_position)
          IN IF ~Contains(VALID_VECTORS, m2) THEN [self |-> s1, ret |-> "ValueError"]
             ELSE LET p2_new_position == Add(self.p2, m2)
                  IN IF p1_new_position = p2_new_position THEN HeadOn(self)
                     ELSE LET p1_dead == Dead(s0, p1_new_position)
                              p2_dead == Dead(s1, p2_new_position)
                              s2 == MoveP2(s1, p2_new_position)
                              s3 == Outcome(s2, p1_dead, p2_dead)
                          IN [self |-> s3, ret |-> Bool(~s3.gameover)]

\* TronBoard.update(player1_move, player2_move)
update(self, player1_move, player2_move) ==
  LET m1 == Substitute(player1_move, self.v1)
      m2 == Substitute(player2_move, self.v2)
  IN IF ~Contains(VALID_VECTORS, m1) THEN [self |-> self, ret |-> "ValueError"]
     ELSE IF ~Contains(VALID_VECTORS, m2) THEN [self |-> self, ret |-> "ValueError"]
     ELSE LET p1_new_position == Add(self.p1, m1)
              p2_new_position == Add(self.p2, m2)
          IN IF p1_new_position = p2_new_position THEN HeadOn(self)
             ELSE LET s0 == MarkVisited(self)
                      p1_dead == Dead(s0, p1_new_position)
                      s1 == MoveP1(s0, p1_new_position)
                      p2_dead == Dead(s1, p2_new_position)
                      s2 == MoveP2(s1, p2_new_position)
                      s3 == Outcome(s2, p1_dead, p2_dead)
                  IN [self |-> s3, ret |-> Bool(~s3.gameover)]

\* ------------------------------------------------------------------ bots
\* decide_move choosing among all four vectors without asking valid_move
SimpleBot_decide_move_any(board, player_position) == UnitVectors

\* SimpleBot.decide_move: the values random.choice can return, or None
SimpleBot_decide_move(board, player_position) ==
  LET valid_moves == {v \in UnitVectors : valid_move(board, Add(player_position, v))}
  IN IF valid_moves # {} THEN valid_moves ELSE {None}

\* NNBot.decide_move: VALID_VECTORS[argmax of the network's four outputs]
NNBot_decide_move(board, player_position) == UnitVectors

Bots == {"SimpleBot", "NNBot"}
decide_move(bot, board, player_position) ==
  IF bot = "SimpleBot" THEN SimpleBot_decide_move(board, player_position)
  ELSE NNBot_decide_move(board, player_position)

\* -------------------------------------------------------------- TronGame
\* TronGame.update with the two moves the bots decided (show = False)
TronGame_update(self, p1_move, p2_move) ==
  LET r == update(self, p1_move, p2_move)
  IN [self |-> r.self, ret |-> r.ret, calls |-> 1]

\* __next__ returning the game without calling update
TronGame_next_noupdate(self, p1_move, p2_move) ==
  IF self.gameover THEN [self |-> self, ret |-> "StopIteration", calls |-> 0]
  ELSE [self |-> self, ret |-> "self", calls |-> 0]

\* __next__ without the gameover test
TronGame_next_unguarded(self, p1_move, p2_move) ==
  LET r == TronGame_update(self, p1_move, p2_move)
  IN [self |-> r.self,
      ret |-> IF r.ret = "ValueError" THEN "ValueError" ELSE "self",
      calls |-> r.calls]

\* TronGame.__next__ with the moves the bots would decide
TronGame_next(self, p1_move, p2_move) ==
  IF self.gameover THEN [self |-> self, ret |-> "StopIteration", calls |-> 0]
  ELSE LET r == TronGame_update(self, p1_move, p2_move)
       IN [self |-> r.self,
           ret |-> IF r.ret = "ValueError" THEN "ValueError" ELSE "self",
           calls |-> r.calls]

\* ----------------------------------------------------------------- state
VARIABLES
  board,   \* the TronBoard object (TronGame.board)
  call,    \* the last call made: its name (and the constructor's arguments)
  ret      \* what the last call returned or raised

vars == <<board, call, ret>>

\* arguments offered to update: the unit vectors, None, and non-unit pairs
Moves == UnitVectors \cup {None, <<0, 0>>, <<1, 1>>, <<2, 1>>, <<2, 2>>}
\* positions offered to valid_move
Positions == (-1 .. N) \X (-1 .. M)
\* initial vectors of the valid constructions explored: player 1 heads along
\* the first axis, player 2 along the second
InitVectors == { << <<1, 0>>, <<0, -1>> >> }
\* arguments offered to the constructor when its checks are the subject
CtorPositions == (-(N + 1) .. N) \X (-(M + 1) .. M)
CtorVectors == {<<1, 0>>, <<0, -1>>, <<0, 0>>, <<1, 1>>, <<2, 2>>}

\* the state right after TronBoard(N, M, p1, p2, v1, v2) returned or raised
Constructed(b, c, r, p1, p2, v1, v2) ==
  LET res == TronBoard_init(p1, p2, v1, v2)
  IN /\ b = res.self
     /\ c = [op |-> "__init__", p1 |-> p1, p2 |-> p2, v1 |-> v1, v2 |-> v2]
     /\ r = res.ret

\* a valid construction: distinct in-bounds positions, unit-vector directions
Init ==
  \E p1 \in Cells, p2 \in Cells, vv \in InitVectors :
    /\ p1 # p2
    /\ Constructed(board, call, ret, p1, p2, vv[1], vv[2])

\* board.update(player1_move, player2_move) called directly
Update ==
  \E player1_move \in Moves, player2_move \in Moves :
    LET r == update(board, player1_move, player2_move)
    IN /\ board' = r.self
       /\ call' = [op |-> "update"]
       /\ ret' = r.ret

\* board.valid_move(move) called directly
ValidMove ==
  \E move \in Positions :
    /\ board' = board
    /\ call' = [op |-> "valid_move"]
    /\ ret' = Bool(valid_move(board, move))

\* next(game): the bots decide, then TronGame.__next__ runs
GameNext ==
  \E bot1 \in Bots, bot2 \in Bots :
    \E p1_move \in decide_move(bot1, board, board.p1),
       p2_move \in decide_move(bot2, board, board.p2) :
      LET r == TronGame_next(board, p1_move, p2_move)
      IN /\ board' = r.self
         /\ call' = [op |-> "__next__", calls |-> r.calls]
         /\ ret' = r.ret

Next == Update \/ ValidMove \/ GameNext

Spec == Init /\ [][Next]_vars

\* ------------------------------------------- the constructor on any input
InitCtor ==
  /\ board = NoBoard
  /\ call = [op |-> "none"]
  /\ ret = "None"

\* TronBoard(N, M, p1, p2, v1, v2) with arbitrary arguments
Construct ==
  /\ call.op = "none"
  /\ \E p1 \in CtorPositions, p2 \in CtorPositions,
        v1 \in CtorVectors, v2 \in CtorVectors :
       Constructed(board', call', ret', p1, p2, v1, v2)

NextCtor == Construct

SpecCtor == InitCtor /\ [][NextCtor]_vars

\* ------------------------------------------------ the loop over the game
\* for state in game: each request is one __next__; the policies may return
\* any pair or None; the loop is left when __next__ raises. The call record
\* keeps the constructor's arguments and counts the calls of update (ticks)
\* and the states returned to the loop (yields).
Iterate ==
  /\ ret \notin {"StopIteration", "ValueError"}
  /\ \E p1_move \in Moves, p2_move \in Moves :
       LET r == TronGame_next(board, p1_move, p2_move)
           ticks == IF call.op = "__init__" THEN 0 ELSE call.ticks
           yields == IF call.op = "__init__" THEN 0 ELSE call.yields
       IN /\ board' = r.self
          /\ call' = [op |-> "__next__", calls |-> r.calls,
                      ticks |-> ticks + r.calls,
                      yields |-> yields + (IF r.ret = "self" THEN 1 ELSE 0),
                      p1 |-> call.p1, p2 |-> call.p2,
                      v1 |-> call.v1, v2 |-> call.v2]
          /\ ret' = r.ret

NextGame == Iterate

\* the loop keeps requesting states until __next__ raises
SpecGame == Init /\ [][NextGame]_vars /\ WF_vars(NextGame)

\* --------------------------------------- update(None, None), repeatedly
\* every valid construction: distinct in-bounds positions, any unit vectors
InitStraight ==
  \E p1 \in Cells, p2 \in Cells, v1 \in UnitVectors, v2 \in UnitVectors :
    /\ p1 # p2
    /\ Constructed(board, call, ret, p1, p2, v1, v2)

\* while board.update(None, None): pass  -- the call record keeps the
\* constructor's arguments and counts the calls made (k)
Straight ==
  /\ ~board.gameover
  /\ LET r == update(board, None, None)
         k == IF call.op = "__init__" THEN 0 ELSE call.k
     IN /\ board' = r.self
        /\ call' = [op |-> "update", k |-> k + 1,
                    p1 |-> call.p1, p2 |-> call.p2,
                    v1 |-> call.v1, v2 |-> call.v2]
        /\ ret' = r.ret

NextStraight == Straight

SpecStraight == InitStraight /\ [][NextStraight]_vars /\ WF_vars(NextStraight)

\* ================================================================ claims
\* Properties of update are stated over every reachable board and every pair
\* of arguments in Moves: r is what the call would return and leave behind.

\* the direction a call applies for an argument d of a player whose stored vector is v
Applied(d, v) == IF d = None THEN v ELSE d
\* the specification's notion of a valid move: inside the grid and Empty
IsFree(b, pos) == pos \in Cells /\ b.board[pos] = EMPTY
\* the difference of two positions
Diff(p, q) == <<p[1] - q[1], p[2] - q[2]>>
\* the cells holding a given value
CellsWith(b, v) == {c \in Cells : b.board[c] = v}

\* the board with the two players' roles exchanged
SwapCell(c) ==
  CASE c = PLAYER1_POSITION -> PLAYER2_POSITION
    [] c = PLAYER2_POSITION -> PLAYER1_POSITION
    [] c = VISITED1 -> VISITED2
    [] c = VISITED2 -> VISITED1
    [] OTHER -> c
SwapWinner(w) == IF w = 1 THEN 2 ELSE IF w = 2 THEN 1 ELSE w
SwapRoles(b) ==
  [board |-> [c \in Cells |-> SwapCell(b.board[c])],
   gameover |-> b.gameover, winner |-> SwapWinner(b.winner),
   p1 |-> b.p2, p2 |-> b.p1, v1 |-> b.v2, v2 |-> b.v1]

\* C1: once gameover is true, a further update call changes neither winner
\* nor any grid cell.
C1_TerminalImmutable ==
  [][(board.gameover /\ call'.op = "update")
       => (board'.winner = board.winner /\ board'.board = board.board)]_vars

\* C2: update rejects every supplied direction that is not one of the four
\* unit vectors, and the player is not moved.
C2_RejectsNonUnit ==
  \A d1 \in Moves, d2 \in Moves :
    LET r == update(board, d1, d2)
    IN /\ (d1 # None /\ d1 \notin UnitVectors)
            => (r.ret = "ValueError" /\ r.self.p1 = board.p1)
       /\ (d2 # None /\ d2 \notin UnitVectors)
            => (r.ret = "ValueError" /\ r.self.p2 = board.p2)

\* C3: after a tick of a running game in which a player moved by a unit
\* vector d and the game went on, a tick with None for that player moves it
\* by d again (if it moves at all).
C3_CarryLastUsed ==
  [][(call'.op = "update" /\ ~board.gameover /\ ~board'.gameover)
       => \A d2 \in Moves :
            /\ (Diff(board'.p1, board.p1) \in UnitVectors)
                 => LET r == update(board', None, d2)
                    IN r.self.p1 # board'.p1
                         => r.self.p1 = Add(board'.p1, Diff(board'.p1, board.p1))
            /\ (Diff(board'.p2, board.p2) \in UnitVectors)
                 => LET r == update(board', d2, None)
                    IN r.self.p2 # board'.p2
                         => r.self.p2 = Add(board'.p2, Diff(board'.p2, board.p2))]_vars

\* C4: when update accepts both directions and the two candidate positions,
\* computed from the positions before the call, are equal, it sets gameover,
\* sets winner to None, returns False and leaves the grid and both positions
\* as they were; from a game not over, both old cells still hold the players.
C4_HeadOn ==
  \A d1 \in Moves, d2 \in Moves :
    LET r == update(board, d1, d2)
    IN (/\ r.ret # "ValueError"
        /\ Add(board.p1, Applied(d1, board.v1)) = Add(board.p2, Applied(d2, board.v2)))
         => /\ r.self.gameover
            /\ r.self.winner = NoWinner
            /\ r.ret = "False"
            /\ r.self.board = board.board
            /\ r.self.p1 = board.p1
            /\ r.self.p2 = board.p2
            /\ (~board.gameover
                  => /\ r.self.board[board.p1] = PLAYER1_POSITION
                     /\ r.self.board[board.p2] = PLAYER2_POSITION)

\* a head-on collision has happened: the game is over without a winner and
\* both players' cells still hold them
C4_Witness ==
  /\ call.op = "update"
  /\ ret = "False"
  /\ board.gameover
  /\ board.winner = NoWinner
  /\ board.board[board.p1] = PLAYER1_POSITION
  /\ board.board[board.p2] = PLAYER2_POSITION

\* C5: on an accepted tick that is not head-on, from a game not over: both
\* candidates invalid gives gameover without winner, exactly one invalid
\* gives gameover with the other player as winner, both valid leaves gameover
\* false; and update returns  not gameover.
C5_Winner ==
  ~board.gameover =>
    \A d1 \in Moves, d2 \in Moves :
      LET r == update(board, d1, d2)
          c1 == Add(board.p1, Applied(d1, board.v1))
          c2 == Add(board.p2, Applied(d2, board.v2))
          ok1 == IsFree(board, c1)
          ok2 == IsFree(board, c2)
      IN (r.ret # "ValueError" /\ c1 # c2)
           => /\ r.self.gameover = ~(ok1 /\ ok2)
              /\ (~ok1 /\ ~ok2) => r.self.winner = NoWinner
              /\ (~ok1 /\ ok2) => r.self.winner = 2
              /\ (ok1 /\ ~ok2) => r.self.winner = 1
              /\ r.ret = Bool(~r.self.gameover)

\* a tick ended the game with player 1 as the only survivor
C5_Witness ==
  /\ call.op = "update"
  /\ ret = "False"
  /\ board.gameover
  /\ board.winner = 1
  /\ board.board[board.p1] = PLAYER1_POSITION
  /\ board.board[board.p2] = VISITED2

\* C6: while the game is not over, exactly one cell holds player 1 and one
\* holds player 2, they are the cells at the stored positions, and the two
\* positions are distinct and inside the grid.
C6_OneCellEach ==
  ~board.gameover =>
    /\ board.p1 \in Cells
    /\ board.p2 \in Cells
    /\ board.p1 # board.p2
    /\ CellsWith(board, PLAYER1_POSITION) = {board.p1}
    /\ CellsWith(board, PLAYER2_POSITION) = {board.p2}

\* both players have moved and the game goes on
C6_Witness ==
  /\ call.op = "update"
  /\ ret = "True"
  /\ ~board.gameover
  /\ CellsWith(board, VISITED1) # {}
  /\ CellsWith(board, VISITED2) # {}

\* C7: construction fails when the positions are equal, when a position is
\* outside the grid, or when a direction is not a unit vector.
C7_CtorRejects ==
  (/\ call.op = "__init__"
   /\ \/ call.p1 = call.p2
      \/ call.p1 \notin Cells
      \/ call.p2 \notin Cells
      \/ call.v1 \notin UnitVectors
      \/ call.v2 \notin UnitVectors)
    => (ret # "None" /\ board = NoBoard)

\* C8: valid_move(position) is true exactly when the position is inside the
\* grid and its cell is Empty, for every position including those with
\* negative or too large coordinates.
C8_ValidMove ==
  \A move \in Positions :
    valid_move(board, move) = (move \in Cells /\ board.board[move] = EMPTY)

\* valid_move has answered False on a board that holds trails
C8_Witness ==
  /\ call.op = "valid_move"
  /\ ret = "False"
  /\ CellsWith(board, VISITED1) # {}

\* C9: update(d2, d1) on the role-swapped board gives the role-swapped image
\* of update(d1, d2): the same return value and gameover, the winner and the
\* grid labels swapped.
C9_Symmetry ==
  LET swapped == SwapRoles(board)
  IN \A d1 \in Moves, d2 \in Moves :
       LET a == update(board, d1, d2)
           b == update(swapped, d2, d1)
       IN b.ret = a.ret /\ b.self = SwapRoles(a.self)

\* a tick in which only player 2 survived
C9_Witness ==
  /\ call.op = "update"
  /\ board.gameover
  /\ board.winner = 2
  /\ board.board[board.p2] = PLAYER2_POSITION
  /\ board.board[board.p1] = VISITED1

\* C10: __next__ on a board whose gameover is true raises StopIteration
\* without calling update and without changing the board; otherwise it
\* calls update once and returns the game, so the state of the tick that
\* sets gameover is returned once and the request after it ends the iteration.
C10_NextGuard ==
  [][(call'.op = "__next__")
       => IF board.gameover
            THEN ret' = "StopIteration" /\ call'.calls = 0 /\ board' = board
            ELSE ret' = "self" /\ call'.calls = 1]_vars

\* the request after the last tick has ended the iteration
C10_Witness ==
  /\ call.op = "__next__"
  /\ ret = "StopIteration"
  /\ board.gameover

\* the number of cells that are not Empty
NonEmpty(b) == Cardinality({c \in Cells : b.board[c] # EMPTY})
\* k times a vector
Times(k, v) == <<k * v[1], k * v[2]>>
\* the board the constructor made from the arguments kept in the call record
AsConstructed == TronBoard_init(call.p1, call.p2, call.v1, call.v2).self

\* C11 (as stated): the first state the loop receives is the board as
\* constructed, and the state received after it as the k-th is the board
\* after k ticks, i.e. every state received has had one tick less than the
\* number of states received.
C11_StartsAtConstructed ==
  (call.op = "__next__" /\ ret = "self")
    => /\ call.ticks = call.yields - 1
       /\ call.yields = 1 => board = AsConstructed

\* C11 (amended): the first state the loop receives is the board after one
\* tick on the board as constructed, which itself is never received, and the
\* k-th state received is the board after k ticks.
C11_YieldAfterTick ==
  (call.op = "__next__" /\ ret = "self")
    => /\ call.ticks = call.yields
       /\ call.yields = 1
            => /\ board # AsConstructed
               /\ \E d1 \in Moves, d2 \in Moves :
                    board = update(AsConstructed, d1, d2).self

\* the loop has received its first state and the game goes on
C11_Witness ==
  /\ call.op = "__next__"
  /\ ret = "self"
  /\ call.yields = 1
  /\ ~board.gameover

\* C12: calling update(None, None) again and again from a valid construction
\* reaches gameover, and after the k-th call that returned True each player
\* is at its start position plus k times its initial direction.
C12_StraightLine ==
  /\ [](call.op = "update" /\ ret = "True"
          => /\ board.p1 = Add(call.p1, Times(call.k, call.v1))
             /\ board.p2 = Add(call.p2, Times(call.k, call.v2)))
  /\ <>(board.gameover)

\* two calls of update(None, None) have returned True
C12_Witness ==
  /\ call.op = "update"
  /\ ret = "True"
  /\ call.k = 2

\* C13: in a running game, a player whose candidate is the cell the other
\* player is leaving dies: the other player wins if its own candidate is
\* valid, and two players trying to exchange their cells both die.
C13_PreMoveCellBlocks ==
  ~board.gameover =>
    \A d1 \in Moves, d2 \in Moves :
      LET r == update(board, d1, d2)
          c1 == Add(board.p1, Applied(d1, board.v1))
          c2 == Add(board.p2, Applied(d2, board.v2))
      IN r.ret # "ValueError"
           => /\ (c1 = board.p2 /\ IsFree(board, c2))
                   => (r.self.gameover /\ r.self.winner = 2)
              /\ (c2 = board.p1 /\ IsFree(board, c1))
                   => (r.self.gameover /\ r.self.winner = 1)
              /\ (c1 = board.p2 /\ c2 = board.p1)
                   => (r.self.gameover /\ r.self.winner = NoWinner)

\* two neighbouring players have both died in one tick that was not head-on
C13_Witness ==
  /\ call.op = "update"
  /\ board.gameover
  /\ board.winner = NoWinner
  /\ board.board[board.p1] = VISITED1
  /\ board.board[board.p2] = VISITED2
  /\ Diff(board.p1, board.p2) \in UnitVectors
  /\ NonEmpty(board) = 2

\* C14: no call, before or after gameover, makes a non-Empty cell Empty.
C14_CellsMonotone ==
  [][\A c \in Cells : board.board[c] # EMPTY => board'.board[c] # EMPTY]_vars

\* update has run on a finished game: the two trails differ in length
C14_Witness ==
  /\ call.op = "update"
  /\ board.gameover
  /\ Cardinality(CellsWith(board, VISITED1)) > Cardinality(CellsWith(board, VISITED2))

\* C15: in a running game, a player whose candidate is a cell of the grid
\* that is not Empty (a cell some player has occupied) does not survive the
\* tick: the game is over and that player is not the winner.
C15_TrailsImpassable ==
  ~board.gameover =>
    \A d1 \in Moves, d2 \in Moves :
      LET r == update(board, d1, d2)
          c1 == Add(board.p1, Applied(d1, board.v1))
          c2 == Add(board.p2, Applied(d2, board.v2))
      IN r.ret # "ValueError"
           => /\ (c1 \in Cells /\ board.board[c1] # EMPTY)
                   => (r.self.gameover /\ r.self.winner # 1)
              /\ (c2 \in Cells /\ board.board[c2] # EMPTY)
                   => (r.self.gameover /\ r.self.winner # 2)

\* player 1 has died next to its own trail while player 2 moved on
C15_Witness ==
  /\ call.op = "update"
  /\ board.gameover
  /\ board.winner = 2
  /\ Cardinality(CellsWith(board, VISITED1)) >= 2
  /\ \E v \in UnitVectors :
       /\ Add(board.p1, v) \in Cells
       /\ board.board[Add(board.p1, v)] = VISITED1

\* C16: SimpleBot.decide_move returns None exactly when no neighbouring cell
\* is a valid move and otherwise a unit vector to a valid cell; an update
\* that gets None from a boxed-in player ends the game and that player is
\* not the winner.
C16_BoxedIn ==
  LET free1 == {v \in UnitVectors : IsFree(board, Add(board.p1, v))}
      free2 == {v \in UnitVectors : IsFree(board, Add(board.p2, v))}
  IN /\ SimpleBot_decide_move(board, board.p1) = (IF free1 = {} THEN {None} ELSE free1)
     /\ SimpleBot_decide_move(board, board.p2) = (IF free2 = {} THEN {None} ELSE free2)
     /\ \A d \in Moves :
          /\ (None \in SimpleBot_decide_move(board, board.p1))
               => LET r == update(board, None, d)
                  IN r.ret # "ValueError" => (r.self.gameover /\ r.self.winner # 1)
          /\ (None \in SimpleBot_decide_move(board, board.p2))
               => LET r == update(board, d, None)
                  IN r.ret # "ValueError" => (r.self.gameover /\ r.self.winner # 2)

\* a running game in which player 1 has no valid neighbouring cell
C16_Witness ==
  /\ call.op \in {"update", "__next__"}
  /\ ~board.gameover
  /\ SimpleBot_decide_move(board, board.p1) = {None}

\* C17: gameover never goes from true back to false.
C17_GameoverMonotone ==
  [][board.gameover => board'.gameover]_vars

\* update has run on a finished game and moved player 2 alone
C17_Witness ==
  /\ call.op = "update"
  /\ board.gameover
  /\ Cardinality(CellsWith(board, VISITED2)) > Cardinality(CellsWith(board, VISITED1))

\* C18: in the loop over the game, the grid of a running game holds
\* 2 + 2k cells that are not Empty after k ticks, k is at most
\* (N * M - 2) \div 2, and the loop is left eventually.
C18_TwoCellsPerTick ==
  /\ [](/\ call.op = "__init__" => NonEmpty(board) = 2
        /\ (call.op = "__next__" /\ ret = "self" /\ ~board.gameover)
             => /\ NonEmpty(board) = 2 + 2 * call.ticks
                /\ call.ticks <= (N * M - 2) \div 2)
  /\ <>(ret \in {"StopIteration", "ValueError"})

\* the game goes on after two ticks of the loop
C18_Witness ==
  /\ call.op = "__next__"
  /\ ret = "self"
  /\ ~board.gameover
  /\ call.ticks = 2

\* C19: an update that raises ValueError leaves the grid, both positions,
\* both vectors, gameover and winner as they were.
C19_RejectedChangesNothing ==
  \A d1 \in Moves, d2 \in Moves :
    LET r == update(board, d1, d2)
    IN r.ret = "ValueError" => r.self = board

\* an update has been rejected in a running game
C19_Witness ==
  /\ call.op = "update"
  /\ ret = "ValueError"
  /\ ~board.gameover

\* C20: winner is None in every state where gameover is false.
C20_WinnerOnlyWhenOver ==
  ~board.gameover => board.winner = NoWinner

\* the loop has received a running game
C20_Witness ==
  /\ call.op = "__next__"
  /\ ret = "self"
  /\ ~board.gameover
  /\ board.winner = NoWinner
  /\ NonEmpty(board) > 2

====
